---- MODULE Spec2Model ----
(***************************************************************************)
(* MathAcademy dashboard: the text-to-activity parser (pdf-parser.js), the *)
(* StatisticsCalculator, the ChartHelpers series builders, UIController.   *)
(*                                                                         *)
(* Time is counted in hours.  A Date is the number of hours since the      *)
(* epoch (UTC); the local wall clock is the instant plus the zone offset   *)
(* tz.  A date key "YYYY-MM-DD" is represented by the calendar day number  *)
(* it names (days since the epoch), which is what the key is an injective  *)
(* rendering of.                                                           *)
(***************************************************************************)
EXTENDS Integers, Sequences, FiniteSets, TLC

VARIABLES
    text,   \* the extracted page text handed to PDFDataParser, as its regex matches
    data,   \* StatisticsCalculator.data: the activity sequence in scope
    tz,     \* offset of the local time zone from UTC, in hours
    now,    \* the instant `new Date()` returns
    op,     \* the operation that ran last
    ret,    \* what that operation returned
    error,  \* the exception that operation raised, NoError if it returned
    hasCalculator,  \* whether stats.calculator is set
    ui      \* the UIController: its period, its stats and its charts

vars == <<text, data, tz, now, op, ret, error, hasCalculator, ui>>

----------------------------------------------------------------------------
(* Bounds of the model *)

MaxLen == 2          \* longest activity sequence of the statistics runs
MaxSeriesLen == 3    \* longest activity sequence of the series runs
MaxDay == 2          \* the clock starts at midnight after day MaxDay (UTC)
MaxXP == 2           \* the numbers the parser captures range over 0..MaxXP
MaxItems == 3        \* longest page text, in regex matches
MaxPipelineItems == 3    \* longest page text of the pipeline runs
MaxTicks == 1        \* days the clock advances during a run
MaxChartLen == 2     \* longest activity sequence of the chart runs
MaxActiveDays == 8   \* most active days of the rolling runs
MaxUILen == 2        \* longest activity sequence of the controller runs

HoursPerDay == 24
Last14 == 14         \* the days getLast14Days reports
WindowReach == 6     \* the buckets before the current one in a rolling window

TimeZoneOffsets == {-5, 0, 2}    \* west of UTC, UTC, east of UTC
XPValues == {0, 1, 2}            \* earned / base of the activities of the statistics runs

Undefined == "undefined"

\* the time value of an Invalid Date (NaN); no instant of the model equals it
InvalidDate == -480

NoError == "none"

----------------------------------------------------------------------------
(* JavaScript helpers *)

\* Math.round of the non-negative quotient n / d (halves round up)
MathRound(n, d) == (2 * n + d) \div (2 * d)

\* String.prototype.toLowerCase over the vocabulary of the model
ToLowerCase(s) ==
    CASE s = "Assessment" -> "assessment"
      [] s = "Diagnostic" -> "diagnostic"
      [] s = "Lesson" -> "lesson"
      [] s = "Review" -> "review"
      [] s = "Quiz" -> "quiz"
      [] s = "Multistep" -> "multistep"
      [] s = "Placement" -> "placement"
      [] s = "Supplemental" -> "supplemental"
      [] s = "Unit Quiz" -> "unit quiz"
      [] s = "Quiz Prep" -> "quiz prep"
      [] s = "Intro to Limits" -> "intro to limits"
      [] s = "Placement Activity" -> "placement activity"
      [] s = "Supplemental Activity" -> "supplemental activity"
      [] s = "Sample Lessons" -> "sample lessons"
      [] OTHER -> s

\* s.includes('quiz') for a lower-cased s of the vocabulary
IncludesQuiz(s) == s \in {"quiz", "unit quiz", "quiz prep", "quizzes"}

\* new Date(dateKey): a date-only ISO string is read as UTC midnight
DateFromKey(key) == key * HoursPerDay

\* Date.getFullYear/getMonth/getDate: the local calendar day of an instant
LocalDay(t) == (t + tz) \div HoursPerDay

\* Date.getHours
LocalHour(t) == (t + tz) % HoursPerDay

\* Date.setHours(0, 0, 0, 0): local midnight of the instant's local day
SetHoursZero(t) == LocalDay(t) * HoursPerDay - tz

\* Date.setDate(getDate() + n)
AddDays(t, n) == t + n * HoursPerDay

\* Array.prototype.sort((a, b) => new Date(a.timestamp) - new Date(b.timestamp)):
\* stable, ascending by timestamp
RECURSIVE InsertByTimestamp(_, _)
InsertByTimestamp(s, a) ==
    IF s = <<>> THEN <<a>>
    ELSE IF s[Len(s)].timestamp <= a.timestamp THEN Append(s, a)
    ELSE Append(InsertByTimestamp(SubSeq(s, 1, Len(s) - 1), a), s[Len(s)])

RECURSIVE SortByTimestamp(_)
SortByTimestamp(s) ==
    IF s = <<>> THEN <<>>
    ELSE InsertByTimestamp(SortByTimestamp(SubSeq(s, 1, Len(s) - 1)), s[Len(s)])

----------------------------------------------------------------------------
(* StatisticsCalculator *)

DiagnosticTypes == {"diagnostic", "assessment", "supplemental diagnostic"}

\* the isQuiz / isDiagnostic pair every consumer recomputes
isQuiz(activity) == IncludesQuiz(ToLowerCase(activity.taskName))

isDiagnostic(activity) ==
    ~isQuiz(activity) /\ ToLowerCase(activity.type) \in DiagnosticTypes

RECURSIVE calculateTotalXPMutant(_)
calculateTotalXPMutant(d) ==
    IF d = <<>> THEN 0
    ELSE calculateTotalXPMutant(SubSeq(d, 1, Len(d) - 1)) + d[Len(d)].base

RECURSIVE calculateTotalXP(_)
calculateTotalXP(d) ==
    IF d = <<>> THEN 0
    ELSE calculateTotalXP(SubSeq(d, 1, Len(d) - 1)) + d[Len(d)].earned

CountedAsMutant(activity) ==
    LET type == ToLowerCase(activity.type)
    IN  IF IncludesQuiz(ToLowerCase(activity.taskName)) THEN "quizzes"
        ELSE CASE type \in {"diagnostic", "assessment", "supplemental diagnostic"}
                      -> "diagnostics"
               [] type = "review" -> "reviews"
               [] type = "multistep" -> "multisteps"
               [] type = "quiz" -> "quizzes"
               [] OTHER -> "lessons"

\* the counter one activity increments, or Undefined for the default branch
CountedAs(activity) ==
    LET type == ToLowerCase(activity.type)
    IN  IF IncludesQuiz(ToLowerCase(activity.taskName)) THEN "quizzes"
        ELSE CASE type \in {"diagnostic", "assessment", "supplemental diagnostic"}
                      -> "diagnostics"
               [] type = "lesson" -> "lessons"
               [] type = "review" -> "reviews"
               [] type = "multistep" -> "multisteps"
               [] type = "quiz" -> "quizzes"
               [] OTHER -> Undefined

ZeroCounts ==
    [diagnostics |-> 0, lessons |-> 0, reviews |-> 0, multisteps |-> 0, quizzes |-> 0]

RECURSIVE calculateActivityCounts(_)
calculateActivityCounts(d) ==
    IF d = <<>> THEN ZeroCounts
    ELSE LET counts == calculateActivityCounts(SubSeq(d, 1, Len(d) - 1))
             k == CountedAs(d[Len(d)])
         IN  IF k = Undefined THEN counts ELSE [counts EXCEPT ![k] = @ + 1]

\* the success counter one activity increments
SuccessBucketMutant(activity) ==
    IF isDiagnostic(activity)
    THEN IF activity.earned > 0 THEN "pass" ELSE "fail"
    ELSE IF activity.earned > activity.base THEN "perfect"
         ELSE IF activity.earned > 0 /\ activity.earned < activity.base THEN "pass"
         ELSE IF activity.earned = 0 THEN "fail"
         ELSE Undefined

SuccessBucket(activity) ==
    IF isDiagnostic(activity)
    THEN IF activity.earned > 0 THEN "pass" ELSE "fail"
    ELSE IF activity.earned > activity.base THEN "perfect"
         ELSE IF activity.earned > 0 /\ activity.earned <= activity.base THEN "pass"
         ELSE "fail"

\* what one activity adds to totalEarned / totalPossible of the snapshot
SnapshotEarned(activity) == activity.earned

SnapshotPossible(activity) ==
    IF isDiagnostic(activity) THEN activity.earned ELSE activity.base

RECURSIVE CountBucket(_, _)
CountBucket(d, b) ==
    IF d = <<>> THEN 0
    ELSE CountBucket(SubSeq(d, 1, Len(d) - 1), b)
         + (IF SuccessBucket(d[Len(d)]) = b THEN 1 ELSE 0)

RECURSIVE SumEarned(_)
SumEarned(d) ==
    IF d = <<>> THEN 0
    ELSE SumEarned(SubSeq(d, 1, Len(d) - 1)) + SnapshotEarned(d[Len(d)])

RECURSIVE SumPossible(_)
SumPossible(d) ==
    IF d = <<>> THEN 0
    ELSE SumPossible(SubSeq(d, 1, Len(d) - 1)) + SnapshotPossible(d[Len(d)])

\* successRate is kept in tenths of a percent: Math.round(rate * 10) / 10
AttainmentTenthsMutant(totalEarned, totalPossible) ==
    IF totalPossible = 0 THEN 0
    ELSE IF totalEarned > totalPossible THEN 1000
    ELSE MathRound(totalEarned * 1000, totalPossible)

\* successRate in tenths of a percent: Math.round(successRate * 10) / 10 of
\* totalEarned / totalPossible * 100, 0 without possible XP
AttainmentTenths(totalEarned, totalPossible) ==
    IF totalPossible > 0 THEN MathRound(totalEarned * 1000, totalPossible) ELSE 0

calculateSuccessMetrics(d) ==
    LET totalEarned == SumEarned(d)
        totalPossible == SumPossible(d)
    IN  [perfectCount |-> CountBucket(d, "perfect"),
         passCount |-> CountBucket(d, "pass"),
         failCount |-> CountBucket(d, "fail"),
         successRateTenths |-> AttainmentTenths(totalEarned, totalPossible),
         totalEarned |-> totalEarned,
         totalPossible |-> totalPossible]

\* the distinct toDateString() keys of calculateDailyStats
DailyStatsKeys(d) == {LocalDay(d[i].timestamp) : i \in 1..Len(d)}

calculateAvgXPPerDay(d) ==
    LET uniqueDays == Cardinality(DailyStatsKeys(d))
    IN  IF uniqueDays > 0 THEN MathRound(calculateTotalXP(d), uniqueDays) ELSE 0

\* what calculateDailyStats adds up under one toDateString() key
RECURSIVE DailySum(_, _, _)
DailySum(d, dateKey, field) ==
    IF Len(d) = 0 THEN 0
    ELSE (IF LocalDay(Head(d).timestamp) # dateKey THEN 0
          ELSE IF field = "count" THEN 1
          ELSE Head(d)[field])
         + DailySum(Tail(d), dateKey, field)

\* the object keyed by toDateString(); xp and earned both add activity.earned
calculateDailyStats(d) ==
    [dateKey \in DailyStatsKeys(d) |->
        [xp |-> DailySum(d, dateKey, "earned"),
         earned |-> DailySum(d, dateKey, "earned"),
         base |-> DailySum(d, dateKey, "base"),
         count |-> DailySum(d, dateKey, "count")]]

\* the 14 calendar days that end at `new Date()`, oldest first (i = 13 .. 0)
getLast14Days(d) ==
    LET today == now
    IN  [j \in 1..Last14 |->
            LET date == AddDays(today, -(Last14 - j))
                dateKey == LocalDay(date)
                known == dateKey \in DailyStatsKeys(d)    \* dailyStats[dateKey] is set
            IN  [date |-> date,
                 label |-> dateKey,
                 xp |-> IF known THEN DailySum(d, dateKey, "earned") ELSE 0,
                 count |-> IF known THEN DailySum(d, dateKey, "count") ELSE 0]]

\* formatHour(hour) for the hours 0 .. 23
HourLabels ==
    <<"12:00 AM", "1:00 AM", "2:00 AM", "3:00 AM", "4:00 AM", "5:00 AM",
      "6:00 AM", "7:00 AM", "8:00 AM", "9:00 AM", "10:00 AM", "11:00 AM",
      "12:00 PM", "1:00 PM", "2:00 PM", "3:00 PM", "4:00 PM", "5:00 PM",
      "6:00 PM", "7:00 PM", "8:00 PM", "9:00 PM", "10:00 PM", "11:00 PM">>

formatHour(hour) == HourLabels[hour + 1]

RECURSIVE HourlyXP(_, _)
HourlyXP(d, hour) ==
    IF Len(d) = 0 THEN 0
    ELSE (IF LocalHour(Head(d).timestamp) = hour THEN Head(d).earned ELSE 0)
         + HourlyXP(Tail(d), hour)

\* hourlyStats is read at the hours that hold an activity (every other entry
\* keeps xp 0 and never passes `stats.xp > maxHourlyXP`)
calculateTimeAnalysis(d) ==
    LET hours == {LocalHour(d[i].timestamp) : i \in 1..Len(d)}
        maxHourlyXP == CHOOSE x \in {HourlyXP(d, h) : h \in hours} \cup {0} :
                           \A h \in hours : HourlyXP(d, h) <= x
        mostProductiveHour ==
            IF maxHourlyXP = 0 THEN 0
            ELSE CHOOSE h \in hours :
                     /\ HourlyXP(d, h) = maxHourlyXP
                     /\ \A g \in hours : HourlyXP(d, g) = maxHourlyXP => h <= g
    IN  [mostProductiveHour |-> formatHour(mostProductiveHour),
         maxHourlyXP |-> maxHourlyXP]

\* calculateTimeAnalysis indexes hourlyStats with getHours(): NaN for an Invalid
\* Date, and `hourlyStats[NaN].xp` is a TypeError; calculateActivityCounts calls
\* toLowerCase on activity.type, a TypeError when the type is undefined
StatsThrow(d) ==
    \E i \in 1..Len(d) : d[i].timestamp = InvalidDate \/ d[i].type = Undefined

\* (weekdayStats and bestPerformance are not part of the model)
getEmptyStats ==
    [totalXP |-> 0,
     totalActivities |-> 0,
     activityCounts |-> ZeroCounts,
     successMetrics |-> [perfectCount |-> 0, passCount |-> 0, failCount |-> 0,
                         successRateTenths |-> 0],
     avgXPPerDay |-> 0,
     dailyStats |-> <<>>,
     last14Days |-> <<>>,
     timeAnalysis |-> [mostProductiveHour |-> "", maxHourlyXP |-> 0]]

\* the object calculateStats builds for a non-empty activity sequence
StatsObject(d) ==
    [totalXP |-> calculateTotalXP(d),
     totalActivities |-> Len(d),
     activityCounts |-> calculateActivityCounts(d),
     successMetrics |-> calculateSuccessMetrics(d),
     avgXPPerDay |-> calculateAvgXPPerDay(d),
     dailyStats |-> calculateDailyStats(d),
     last14Days |-> getLast14Days(d),
     timeAnalysis |-> calculateTimeAnalysis(d)]

calculateStatsMutant(d) == StatsObject(d)

calculateStats(d) ==
    IF Len(d) = 0 THEN getEmptyStats ELSE StatsObject(d)

\* the first days of the months December 1969 .. April 1970
MonthStarts == {-31, 0, 31, 59, 90}

\* new Date(now.getFullYear(), now.getMonth(), 1): local midnight of the first
FirstOfMonth(t) ==
    LET day == LocalDay(t)
        first == CHOOSE m \in MonthStarts :
                     m <= day /\ \A k \in MonthStarts : k <= day => k <= m
    IN  first * HoursPerDay - tz

\* startDate of filterByPeriod for the three periods that filter
StartDate(period) ==
    CASE period = "today" -> SetHoursZero(now)
      [] period = "week" -> now - 7 * HoursPerDay
      [] period = "month" -> FirstOfMonth(now)

\* the data of the calculator filterByPeriod returns: for 'all' (and any other
\* period) the array of this calculator itself
filterByPeriod(d, period) ==
    IF period \in {"today", "week", "month"}
    THEN LET Keep(activity) == /\ activity.timestamp # InvalidDate
                               /\ activity.timestamp >= StartDate(period)
         IN  SelectSeq(d, Keep)
    ELSE d

\* whether that calculator holds the very array of this one
SharesData(period) == period \notin {"today", "week", "month"}

----------------------------------------------------------------------------
(* ChartHelpers *)

\* x || dflt for a number x
OrDefault(x, dflt) == IF x = 0 THEN dflt ELSE x

\* the date key of the older build: toISOString().split('T')[0], the UTC date
toLocalDateStringMutant(date) == date \div HoursPerDay

toLocalDateString(date) == LocalDay(date)

\* what one activity adds to totalEarned / totalPossible of its day
DayEarned(activity) == OrDefault(activity.earned, 0)

DayPossibleMutant(activity) == OrDefault(activity.base, 10)

DayPossible(activity) ==
    IF isDiagnostic(activity) THEN OrDefault(activity.earned, 0)
    ELSE OrDefault(activity.base, 10)

HasBucket(groups, dateKey) == \E i \in 1..Len(groups) : groups[i].date = dateKey

AddCourse(courses, course) ==
    IF course = "" \/ (\E i \in 1..Len(courses) : courses[i] = course)
    THEN courses ELSE Append(courses, course)

\* one pass of the forEach that fills dailyGroups (buckets kept in insertion order)
AddToGroups(groups, activity) ==
    LET dateKey == toLocalDateString(activity.timestamp)
        g == IF HasBucket(groups, dateKey) THEN groups
             ELSE Append(groups, [date |-> dateKey, xp |-> 0, count |-> 0,
                                  totalPossible |-> 0, totalEarned |-> 0,
                                  courses |-> <<>>])
    IN  [i \in 1..Len(g) |->
            IF g[i].date = dateKey
            THEN [g[i] EXCEPT !.xp = @ + OrDefault(activity.earned, 0),
                              !.count = @ + 1,
                              !.courses = AddCourse(@, activity.course),
                              !.totalPossible = @ + DayPossible(activity),
                              !.totalEarned = @ + DayEarned(activity)]
            ELSE g[i]]

RECURSIVE dailyGroups(_)
dailyGroups(activities) ==
    IF activities = <<>> THEN <<>>
    ELSE AddToGroups(dailyGroups(SubSeq(activities, 1, Len(activities) - 1)),
                     activities[Len(activities)])

\* Object.values(dailyGroups).sort((a, b) => new Date(a.date) - new Date(b.date))
RECURSIVE InsertByDate(_, _)
InsertByDate(s, g) ==
    IF s = <<>> THEN <<g>>
    ELSE IF DateFromKey(s[Len(s)].date) <= DateFromKey(g.date) THEN Append(s, g)
    ELSE Append(InsertByDate(SubSeq(s, 1, Len(s) - 1), g), s[Len(s)])

RECURSIVE SortByDate(_)
SortByDate(s) ==
    IF s = <<>> THEN <<>>
    ELSE InsertByDate(SortByDate(SubSeq(s, 1, Len(s) - 1)), s[Len(s)])

\* previousCourse after the transition walk has visited days 1..n
RECURSIVE PreviousCourse(_, _)
PreviousCourse(sortedDays, n) ==
    IF n = 0 THEN Undefined
    ELSE IF Len(sortedDays[n].courses) > 0 THEN sortedDays[n].courses[1]
    ELSE PreviousCourse(sortedDays, n - 1)

MarkTransitionMutant(sortedDays, i) ==
    LET day == sortedDays[i]
        previousCourse == IF i > 1 /\ Len(sortedDays[i - 1].courses) > 0
                          THEN sortedDays[i - 1].courses[1] ELSE Undefined
        flagged == /\ Len(day.courses) > 0
                   /\ previousCourse # Undefined
                   /\ day.courses[1] # previousCourse
    IN  [date |-> day.date, xp |-> day.xp, count |-> day.count,
         totalPossible |-> day.totalPossible, totalEarned |-> day.totalEarned,
         courses |-> day.courses,
         courseTransition |-> flagged,
         transitionFrom |-> IF flagged THEN previousCourse ELSE Undefined,
         transitionTo |-> IF flagged THEN day.courses[1] ELSE Undefined]

\* the body of sortedDays.forEach for day i
MarkTransition(sortedDays, i) ==
    LET day == sortedDays[i]
        previousCourse == PreviousCourse(sortedDays, i - 1)
        flagged == /\ Len(day.courses) > 0
                   /\ previousCourse # Undefined
                   /\ day.courses[1] # previousCourse
    IN  [date |-> day.date, xp |-> day.xp, count |-> day.count,
         totalPossible |-> day.totalPossible, totalEarned |-> day.totalEarned,
         courses |-> day.courses,
         courseTransition |-> flagged,
         transitionFrom |-> IF flagged THEN previousCourse ELSE Undefined,
         transitionTo |-> IF flagged THEN day.courses[1] ELSE Undefined]

groupActivitiesByDay(activities) ==
    LET sortedDays == SortByDate(dailyGroups(activities))
    IN  [i \in 1..Len(sortedDays) |-> MarkTransition(sortedDays, i)]

\* src/js/chart-helpers.js, the other build of the class: its
\* groupActivitiesByDay differs in the date key alone,
\* date.toISOString().split('T')[0], the calendar date in UTC
ISODateString(date) == date \div HoursPerDay

AddToGroupsISO(groups, activity) ==
    LET dateKey == ISODateString(activity.timestamp)
        g == IF HasBucket(groups, dateKey) THEN groups
             ELSE Append(groups, [date |-> dateKey, xp |-> 0, count |-> 0,
                                  totalPossible |-> 0, totalEarned |-> 0,
                                  courses |-> <<>>])
    IN  [i \in 1..Len(g) |->
            IF g[i].date = dateKey
            THEN [g[i] EXCEPT !.xp = @ + OrDefault(activity.earned, 0),
                              !.count = @ + 1,
                              !.courses = AddCourse(@, activity.course),
                              !.totalPossible = @ + DayPossible(activity),
                              !.totalEarned = @ + DayEarned(activity)]
            ELSE g[i]]

RECURSIVE dailyGroupsISO(_)
dailyGroupsISO(activities) ==
    IF activities = <<>> THEN <<>>
    ELSE AddToGroupsISO(dailyGroupsISO(SubSeq(activities, 1, Len(activities) - 1)),
                        activities[Len(activities)])

groupActivitiesByDayISO(activities) ==
    LET sortedDays == SortByDate(dailyGroupsISO(activities))
    IN  [i \in 1..Len(sortedDays) |-> MarkTransition(sortedDays, i)]

\* lookup[dateKey] || 0 for the lookup built from one field of dailyData
LookupOrZeroMutant(dailyData, field, dateKey) ==
    IF \E i \in 1..Len(dailyData) : dailyData[i].date = dateKey - 1
    THEN LET i == CHOOSE j \in 1..Len(dailyData) : dailyData[j].date = dateKey - 1
         IN  dailyData[i][field]
    ELSE 0

LookupOrZero(dailyData, field, dateKey) ==
    IF \E i \in 1..Len(dailyData) : dailyData[i].date = dateKey
    THEN LET i == CHOOSE j \in 1..Len(dailyData) : dailyData[j].date = dateKey
         IN  dailyData[i][field]
    ELSE 0

transitionLookup(dailyData) ==
    LET flagged == {i \in 1..Len(dailyData) : dailyData[i].courseTransition}
    IN  {[date |-> dailyData[i].date,
          from |-> dailyData[i].transitionFrom,
          to |-> dailyData[i].transitionTo] : i \in flagged}

\* first date of the zero-filled range: new Date(dailyData[0].date), setHours(0,0,0,0)
RangeStart(dailyData) == SetHoursZero(DateFromKey(dailyData[1].date))

RangeEnd(dailyData) == SetHoursZero(DateFromKey(dailyData[Len(dailyData)].date))

RECURSIVE CumulativeLoopMutant(_, _, _, _, _)
CumulativeLoopMutant(currentDate, lastDate, dailyData, field, cumulative) ==
    IF currentDate <= lastDate
    THEN LET dateKey == toLocalDateString(currentDate)
             c == cumulative + LookupOrZero(dailyData, field, dateKey)
         IN  (IF \E i \in 1..Len(dailyData) : dailyData[i].date = dateKey
              THEN <<[date |-> dateKey, cumulative |-> c]>> ELSE <<>>)
             \o CumulativeLoopMutant(AddDays(currentDate, 1), lastDate, dailyData,
                                     field, c)
    ELSE <<>>

\* while (currentDate <= lastDate) { ... currentDate.setDate(getDate() + 1) }
RECURSIVE CumulativeLoop(_, _, _, _, _)
CumulativeLoop(currentDate, lastDate, dailyData, field, cumulative) ==
    IF currentDate <= lastDate
    THEN LET dateKey == toLocalDateString(currentDate)
             c == cumulative + LookupOrZero(dailyData, field, dateKey)
         IN  <<[date |-> dateKey, cumulative |-> c]>>
             \o CumulativeLoop(AddDays(currentDate, 1), lastDate, dailyData, field, c)
    ELSE <<>>

CumulativeSeries(activities, field) ==
    LET dailyData == groupActivitiesByDay(activities)
        points == CumulativeLoop(RangeStart(dailyData), RangeEnd(dailyData),
                                 dailyData, field, 0)
    IN  [labels |-> [i \in 1..Len(points) |-> points[i].date],
         values |-> [i \in 1..Len(points) |-> points[i].cumulative],
         transitions |-> transitionLookup(dailyData)]

\* the sample series returned when stats.calculator (or its data) is not set
SampleXP ==
    [labels |-> <<"Day 1", "Day 2", "Day 3", "Day 4", "Day 5">>,
     values |-> <<12, 28, 41, 67, 85>>]

SampleActivities ==
    [labels |-> <<"Day 1", "Day 2", "Day 3", "Day 4">>, values |-> <<2, 5, 7, 12>>]

SampleAvgXP == [labels |-> <<"Week 1", "Week 2", "Week 3">>, values |-> <<108, 112, 115>>]

SampleSuccessRate ==
    [labels |-> <<"Month 1", "Month 2", "Month 3">>, values |-> <<87, 86, 88>>]

EmptySeries == [labels |-> <<>>, values |-> <<>>]

\* the placeholder series returned for an empty activity sequence
PlaceholderAvgXP == [labels |-> <<"Week 1", "Week 2">>, values |-> <<110, 112>>]

PlaceholderSuccessRate == [labels |-> <<"Month 1", "Month 2">>, values |-> <<70, 80>>]

PlaceholderXP == [labels |-> <<"Day 1", "Day 2", "Day 3">>, values |-> <<5, 12, 20>>]

PlaceholderActivities == [labels |-> <<"Day 1", "Day 2">>, values |-> <<1, 2>>]

\* activities is the calculator's data after the in-place sort
getCumulativeXPData(activities) ==
    IF Len(activities) = 0 THEN PlaceholderXP
    ELSE CumulativeSeries(activities, "xp")

getCumulativeActivitiesData(activities) ==
    IF Len(activities) = 0 THEN PlaceholderActivities
    ELSE CumulativeSeries(activities, "count")

RECURSIVE SumField(_, _)
SumField(window, field) ==
    IF Len(window) = 0 THEN 0
    ELSE Head(window)[field] + SumField(Tail(window), field)

RollingWindowMutant(dailyData, i) ==
    SubSeq(dailyData, IF i - WindowReach - 1 > 1 THEN i - WindowReach - 1 ELSE 1, i)

\* dailyData.slice(Math.max(0, i - 6), i + 1), for the 1-based index i
RollingWindow(dailyData, i) ==
    SubSeq(dailyData, IF i - WindowReach > 1 THEN i - WindowReach ELSE 1, i)

getAvgXPOverTimeData(activities) ==
    IF Len(activities) = 0 THEN PlaceholderAvgXP
    ELSE LET dailyData == groupActivitiesByDay(activities)
         IN  [labels |-> [i \in 1..Len(dailyData) |-> dailyData[i].date],
              values |-> [i \in 1..Len(dailyData) |->
                  LET window == RollingWindow(dailyData, i)
                  IN  MathRound(SumField(window, "xp"), Len(window))],
              transitions |-> transitionLookup(dailyData)]

getSuccessRateOverTimeData(activities) ==
    IF Len(activities) = 0 THEN PlaceholderSuccessRate
    ELSE LET dailyData == groupActivitiesByDay(activities)
         IN  [labels |-> [i \in 1..Len(dailyData) |-> dailyData[i].date],
              values |-> [i \in 1..Len(dailyData) |->
                  LET window == RollingWindow(dailyData, i)
                      totalEarned == SumField(window, "totalEarned")
                      totalPossible == SumField(window, "totalPossible")
                  IN  IF totalPossible > 0
                      THEN MathRound(totalEarned * 100, totalPossible)
                      ELSE 0],
              transitions |-> transitionLookup(dailyData)]

RECURSIVE WeekLoopMutant(_, _, _, _, _)
WeekLoopMutant(i, dailyData, field, cumulative, running) ==
    IF i >= 0
    THEN LET dateKey == toLocalDateString(AddDays(now, 0 - i))
             v == LookupOrZero(dailyData, field, dateKey)
         IN  <<[date |-> dateKey, value |-> v]>>
             \o WeekLoopMutant(i - 1, dailyData, field, cumulative, v)
    ELSE <<>>

\* for (let i = 6; i >= 0; i--): the week window, oldest day first
RECURSIVE WeekLoop(_, _, _, _, _)
WeekLoop(i, dailyData, field, cumulative, running) ==
    IF i >= 0
    THEN LET dateKey == toLocalDateString(AddDays(now, 0 - i))
             v == LookupOrZero(dailyData, field, dateKey)
             c == IF cumulative THEN running + v ELSE v
         IN  <<[date |-> dateKey, value |-> c]>>
             \o WeekLoop(i - 1, dailyData, field, cumulative, c)
    ELSE <<>>

WeekSeries(activities, field, cumulative) ==
    IF Len(activities) = 0 THEN EmptySeries
    ELSE LET points == WeekLoop(6, groupActivitiesByDay(activities), field, cumulative, 0)
         IN  [labels |-> [i \in 1..Len(points) |-> points[i].date],
              values |-> [i \in 1..Len(points) |-> points[i].value]]

getDailyXPData(activities) == WeekSeries(activities, "xp", FALSE)

getDailyActivitiesData(activities) == WeekSeries(activities, "count", FALSE)

getWeeklyCumulativeXPData(activities) == WeekSeries(activities, "xp", TRUE)

getWeeklyCumulativeActivitiesData(activities) == WeekSeries(activities, "count", TRUE)

AttainmentOrFullMutant(dailyData, dateKey) ==
    IF \E i \in 1..Len(dailyData) :
           dailyData[i].date = dateKey /\ dailyData[i].totalPossible > 0
    THEN LET i == CHOOSE j \in 1..Len(dailyData) : dailyData[j].date = dateKey
         IN  MathRound(dailyData[i].totalEarned * 100, dailyData[i].totalPossible)
    ELSE 0

\* dailyAttainmentLookup[dateKey], 100 for a day the lookup does not hold
AttainmentOrFull(dailyData, dateKey) ==
    IF \E i \in 1..Len(dailyData) :
           dailyData[i].date = dateKey /\ dailyData[i].totalPossible > 0
    THEN LET i == CHOOSE j \in 1..Len(dailyData) : dailyData[j].date = dateKey
         IN  MathRound(dailyData[i].totalEarned * 100, dailyData[i].totalPossible)
    ELSE 100

getDailyAttainmentData(activities) ==
    IF Len(activities) = 0 THEN EmptySeries
    ELSE LET dailyData == groupActivitiesByDay(activities)
             dateKeys == [j \in 1..7 |-> toLocalDateString(AddDays(now, j - 7))]
         IN  [labels |-> dateKeys,
              values |-> [j \in 1..7 |-> AttainmentOrFull(dailyData, dateKeys[j])]]

----------------------------------------------------------------------------
(* PDFDataParser *)

\* the text is the sequence of its regex matches, in order of position:
\*   header      a date header (datePattern); valid says whether new Date() can read it
\*   graded      a match of activityRegex with its five captures
\*   diagnostic  a match of diagnosticRegex with its three captures
\*   noise       len characters that match nothing
IsHeader(item) == item.kind = "header"

\* number of characters of an item ("Mathematical Foundations " alone has 25)
TextLength(item) ==
    CASE item.kind = "noise" -> item.len
      [] item.kind = "graded" -> 40
      [] item.kind = "diagnostic" -> 40
      [] OTHER -> 18

\* parseInt of a captured run of digits, then `|| dflt`
ParseIntOr(digits, dflt) == OrDefault(digits, dflt)

\* new Date(cleanDateStr): local midnight of the date, or an Invalid Date
NewDate(header) ==
    IF header.valid THEN header.day * HoursPerDay - tz ELSE InvalidDate

parseDateMutant(header) == NewDate(header)

parseDate(header) ==
    LET parsed == NewDate(header)
    IN  IF parsed = InvalidDate THEN now    \* isNaN: current date as fallback
        ELSE parsed

\* new Date(`${dateStr} ${timeStr}`): the local time, or an Invalid Date; the
\* constructor does not throw, so the catch branch is never taken
parseDateTime(dateStr, timeStr) ==
    IF dateStr.valid /\ timeStr.valid
    THEN dateStr.day * HoursPerDay + timeStr.hour - tz
    ELSE InvalidDate

normalizeActivityType(type) ==
    IF type = "" THEN "lesson"
    ELSE LET normalizedType == ToLowerCase(type)
         IN  CASE normalizedType \in {"lesson", "lessons"} -> "lesson"
               [] normalizedType \in {"review", "reviews"} -> "review"
               [] normalizedType \in {"quiz", "quizzes"} -> "quiz"
               [] normalizedType \in {"diagnostic", "diagnostics", "placement",
                                      "supplemental"} -> "diagnostic"
               [] normalizedType \in {"multistep", "multisteps", "practice"} -> "multistep"
               [] OTHER -> "lesson"

\* the activity pushed for one match of diagnosticRegex
DiagnosticActivity(header, m) ==
    LET earnedXP == ParseIntOr(m.xp, 63)
    IN  [timestamp |-> parseDate(header),
         type |-> "diagnostic",
         taskName |-> "",
         course |-> m.course,
         title |-> IF m.token = "Placement" THEN "Placement Activity"
                   ELSE "Supplemental Activity",
         earned |-> earnedXP,
         base |-> earnedXP,
         percentage |-> 100,
         isSuccess |-> TRUE]

\* the activity pushed for one match of activityRegex
GradedActivity(header, m) ==
    LET earned == ParseIntOr(m.earned, 0)
        base == ParseIntOr(m.possible, ParseIntOr(m.earned, 0))
        percentage == IF base > 0 THEN MathRound(earned * 100, base) ELSE 100
    IN  [timestamp |-> parseDate(header),
         type |-> normalizeActivityType(m.token),
         taskName |-> "",
         course |-> m.course,
         title |-> m.description,
         earned |-> earned,
         base |-> base,
         percentage |-> percentage,
         isSuccess |-> percentage >= 70]

RECURSIVE MatchesOf(_, _)
MatchesOf(items, kind) ==
    IF items = <<>> THEN <<>>
    ELSE (IF items[1].kind = kind THEN <<items[1]>> ELSE <<>>)
         \o MatchesOf(Tail(items), kind)

\* graded activities first, then the diagnostic ones
parseActivitySection(header, sectionItems) ==
    LET graded == MatchesOf(sectionItems, "graded")
        diagnostic == MatchesOf(sectionItems, "diagnostic")
    IN  [i \in 1..Len(graded) |-> GradedActivity(header, graded[i])]
        \o [i \in 1..Len(diagnostic) |-> DiagnosticActivity(header, diagnostic[i])]

\* index of the first header at or after position i, or Len(t) + 1
RECURSIVE NextHeader(_, _)
NextHeader(t, i) ==
    IF i > Len(t) \/ IsHeader(t[i]) THEN i ELSE NextHeader(t, i + 1)

RECURSIVE SectionLength(_)
SectionLength(items) ==
    IF items = <<>> THEN 0 ELSE TextLength(items[1]) + SectionLength(Tail(items))

\* the loop over dateMatches, started at the header at position i
RECURSIVE ParseFrom(_, _)
ParseFrom(t, i) ==
    IF i > Len(t) THEN <<>>
    ELSE LET sectionEnd == NextHeader(t, i + 1)
             sectionText == SubSeq(t, i + 1, sectionEnd - 1)
         IN  (IF SectionLength(sectionText) > 10
              THEN parseActivitySection(t[i], sectionText) ELSE <<>>)
             \o ParseFrom(t, sectionEnd)

\* the final filter of parseActivities
Keeps(activity) == activity.type # ""

parseActivities(t) == SelectSeq(ParseFrom(t, NextHeader(t, 1)), Keeps)

\* one element of sampleActivities after the map: 'Oct 14, 2025' is day 20375
SampleActivity(type, earned, maxXP, day, hour, course, title) ==
    LET percentage == MathRound(earned * 100, maxXP)
    IN  [timestamp |-> parseDateTime([kind |-> "header", valid |-> TRUE, day |-> day],
                                     [valid |-> TRUE, hour |-> hour]),
         type |-> type,
         taskName |-> "",
         course |-> course,
         title |-> title,
         earned |-> earned,
         base |-> maxXP,
         percentage |-> percentage,
         isSuccess |-> percentage >= 70]

generateSampleData ==
    <<SampleActivity("lessons", 20, 20, 20377, 10, "Mathematical Foundations III",
                     "Sample Lessons"),
      SampleActivity("reviews", 15, 20, 20377, 11, "Mathematical Foundations III",
                     "Sample Reviews"),
      SampleActivity("quizzes", 18, 20, 20376, 14, "Mathematical Foundations III",
                     "Sample Quizzes"),
      SampleActivity("diagnostics", 25, 30, 20375, 9, "Mathematical Foundations II",
                     "Sample Diagnostics"),
      SampleActivity("multisteps", 22, 25, 20375, 15, "Mathematical Foundations II",
                     "Sample Multisteps")>>

\* loadFromFile: the activities parsed from the text of the pages, or the
\* sample data when fetching or reading the file failed
loadFromFile(loaded, fullText) ==
    IF loaded THEN parseActivities(fullText) ELSE generateSampleData

----------------------------------------------------------------------------
(* UIController *)

\* the controller after its constructor ran
NoUI ==
    [initialized |-> FALSE, currentPeriod |-> "all", stats |-> <<>>,
     calculator |-> <<>>, shared |-> FALSE, originalStats |-> <<>>,
     xpChart |-> EmptySeries, activitiesChart |-> EmptySeries,
     avgXPChart |-> EmptySeries, successChart |-> EmptySeries]

\* whether renderInlineCharts draws the charts (it hides them for 'today')
DrawsCharts(period) == period # "today"

\* renderDashboard: the cards show u.stats; unless the period is 'today' the
\* four charts are drawn from the series of u.calculator, which every series
\* operation sorts in place
renderDashboard(u) ==
    IF DrawsCharts(u.currentPeriod)
    THEN LET activities == SortByTimestamp(u.calculator)
             isWeekView == u.currentPeriod = "week"
         IN  [u EXCEPT
                 !.calculator = activities,
                 !.xpChart = IF isWeekView THEN getWeeklyCumulativeXPData(activities)
                             ELSE getCumulativeXPData(activities),
                 !.activitiesChart =
                     IF isWeekView THEN getWeeklyCumulativeActivitiesData(activities)
                     ELSE getCumulativeActivitiesData(activities),
                 !.avgXPChart = IF isWeekView THEN getDailyXPData(activities)
                                ELSE getAvgXPOverTimeData(activities),
                 !.successChart = IF isWeekView THEN getDailyAttainmentData(activities)
                                  ELSE getSuccessRateOverTimeData(activities)]
    ELSE u

\* the array of originalStats.calculator after renderDashboard: sorted with
\* the array of stats.calculator where the two are one array
OriginalAfterRender(u, original) ==
    IF u.shared /\ DrawsCharts(u.currentPeriod) THEN SortByTimestamp(original)
    ELSE original

\* the stats of the period: filterByPeriod, calculateStats, and the filtered
\* calculator attached
FilteredStats(u, original, period) ==
    LET filteredCalculator == filterByPeriod(original, period)
    IN  [u EXCEPT !.currentPeriod = period,
                  !.stats = calculateStats(filteredCalculator),
                  !.calculator = filteredCalculator,
                  !.shared = SharesData(period)]

----------------------------------------------------------------------------
(* Inputs *)

\* type / title / taskName of the activities of the statistics runs, and the
\* hour each kind is logged at (the first three on day 0, the others on day 1)
StatKinds ==
    {[type |-> "lesson", title |-> "Intro to Limits", taskName |-> "", hour |-> 9],
     [type |-> "diagnostic", title |-> "Placement Activity", taskName |-> "", hour |-> 9],
     [type |-> "Assessment", title |-> "Unit Quiz", taskName |-> "", hour |-> 22],
     [type |-> "Assessment", title |-> "Unit Quiz", taskName |-> "Unit Quiz",
      hour |-> HoursPerDay + 9],
     [type |-> "quiz", title |-> "Intro to Limits", taskName |-> "",
      hour |-> HoursPerDay + 9],
     [type |-> "lessons", title |-> "Sample Lessons", taskName |-> "",
      hour |-> HoursPerDay + 22]}

\* <<earned, base>> of the activities of the statistics runs: every pair of
\* XPValues but <<0, 1>> and <<1, 1>>, whose attainments 0 % and 100 % the pairs
\* with base 2 have as well
StatLoads == (XPValues \X XPValues) \ {<<0, 1>>, <<1, 1>>}

StatActivities ==
    {[timestamp |-> k.hour, type |-> k.type, taskName |-> k.taskName, title |-> k.title,
      course |-> "Mathematical Foundations I", earned |-> l[1], base |-> l[2]] :
        k \in StatKinds, l \in StatLoads}

\* earned / course of the activities of the series runs, and the UTC clock hour
\* each is logged at: early (the day before, west of UTC) or late (the day
\* after, east of UTC)
SeriesLoads ==
    {[earned |-> 0, course |-> "", hour |-> 1],
     [earned |-> 1, course |-> "Mathematical Foundations I", hour |-> 22],
     [earned |-> 2, course |-> "Mathematical Foundations II", hour |-> 1]}

\* the calendar days (UTC) the activities of the series runs fall on
SeriesDays == {0, 1, 2}

SeriesActivities ==
    {[timestamp |-> d * HoursPerDay + l.hour, type |-> "lesson", taskName |-> "",
      title |-> "Intro to Limits", course |-> l.course, earned |-> l.earned,
      base |-> 2] :
        d \in SeriesDays, l \in SeriesLoads}

\* the activities of the chart runs: those of the series runs and a diagnostic
\* that earned nothing
ChartActivities ==
    SeriesActivities
    \cup {[timestamp |-> HoursPerDay + 9, type |-> "diagnostic", taskName |-> "",
           title |-> "Placement Activity", course |-> "Mathematical Foundations I",
           earned |-> 0, base |-> 0]}

SeqsUpTo(S, n) == UNION {[1..k -> S] : k \in 0..n}

\* the matches a page text is made of
Headers == {[kind |-> "header", valid |-> TRUE, day |-> 0],
            [kind |-> "header", valid |-> FALSE, day |-> 0]}

GradedTokens == {"Lesson", "Review", "Quiz", "Diagnostic", "Multistep"}

GradedMatches ==
    {[kind |-> "graded", course |-> "Mathematical Foundations I", token |-> k,
      description |-> "Intro to Limits", earned |-> e, possible |-> p] :
        k \in GradedTokens, e \in 0..MaxXP, p \in 0..MaxXP}
    \cup {[kind |-> "graded", course |-> "Mathematical Foundations I",
           token |-> "Diagnostic", description |-> "Quiz Prep",
           earned |-> 1, possible |-> MaxXP]}

DiagnosticMatches ==
    {[kind |-> "diagnostic", course |-> "Mathematical Foundations II", token |-> k,
      xp |-> n] : k \in {"Placement", "Supplemental"}, n \in 0..MaxXP}

Noise == {[kind |-> "noise", len |-> 3]}

TextItems == Headers \cup GradedMatches \cup DiagnosticMatches \cup Noise

\* type / earned / base of the one activity of an active day of the rolling runs
RollingLoads ==
    {[type |-> "lesson", earned |-> 4, base |-> 3],
     [type |-> "lesson", earned |-> 2, base |-> 0],
     [type |-> "diagnostic", earned |-> 0, base |-> 0]}

\* one activity on each of Len(loads) active days, every other calendar day
RollingActivities(loads) ==
    [k \in 1..Len(loads) |->
        [timestamp |-> (k - 1) * 2 * HoursPerDay + 9, type |-> loads[k].type,
         taskName |-> "", title |-> "Intro to Limits",
         course |-> "Mathematical Foundations I", earned |-> loads[k].earned,
         base |-> loads[k].base]]

\* the time texts handed to parseDateTime: '10:30 AM', and one that does not parse
Times == {[valid |-> TRUE, hour |-> 10], [valid |-> FALSE, hour |-> 0]}

\* the activities of the controller runs: on 1970-02-02, and in January seven
\* and two days before
UIActivities ==
    {[timestamp |-> d * HoursPerDay + 9, type |-> "lesson", taskName |-> "",
      title |-> "Intro to Limits", course |-> "Mathematical Foundations I",
      earned |-> 1, base |-> 2] : d \in {25, 30, 32}}

\* the instants of the controller runs: 1970-02-02, 08:00 and 12:00 UTC
UINows == {32 * HoursPerDay + 8, 32 * HoursPerDay + 12}

\* the periods of the selector
Periods == {"today", "week", "month", "all"}

\* the matches the page texts of the pipeline runs are made of
PipelineItems ==
    Headers
    \cup {[kind |-> "graded", course |-> "Mathematical Foundations I", token |-> "Lesson",
           description |-> "Intro to Limits", earned |-> 1, possible |-> 2],
          [kind |-> "diagnostic", course |-> "Mathematical Foundations II",
           token |-> "Placement", xp |-> 1]}
    \cup Noise

----------------------------------------------------------------------------
(* Operations *)

CalculateStats ==
    /\ hasCalculator
    /\ op' = "calculateStats"
    /\ ret' = IF StatsThrow(data) THEN <<>> ELSE calculateStats(data)
    /\ error' = IF StatsThrow(data) THEN "TypeError" ELSE NoError
    /\ UNCHANGED <<text, data, tz, now, hasCalculator, ui>>

GroupActivitiesByDay ==
    /\ op' = "groupActivitiesByDay"
    /\ ret' = groupActivitiesByDay(data)
    /\ error' = NoError
    /\ UNCHANGED <<text, data, tz, now, hasCalculator, ui>>

\* the chart operations sort stats.calculator.data in place before they read it;
\* without a calculator they return their sample series
GetCumulativeXPData ==
    /\ op' = "getCumulativeXPData"
    /\ data' = IF hasCalculator THEN SortByTimestamp(data) ELSE data
    /\ ret' = IF hasCalculator THEN getCumulativeXPData(data') ELSE SampleXP
    /\ error' = NoError
    /\ UNCHANGED <<text, tz, now, hasCalculator, ui>>

GetCumulativeActivitiesData ==
    /\ op' = "getCumulativeActivitiesData"
    /\ data' = IF hasCalculator THEN SortByTimestamp(data) ELSE data
    /\ ret' = IF hasCalculator THEN getCumulativeActivitiesData(data') ELSE SampleActivities
    /\ error' = NoError
    /\ UNCHANGED <<text, tz, now, hasCalculator, ui>>

GetAvgXPOverTimeData ==
    /\ op' = "getAvgXPOverTimeData"
    /\ data' = IF hasCalculator THEN SortByTimestamp(data) ELSE data
    /\ ret' = IF hasCalculator THEN getAvgXPOverTimeData(data') ELSE SampleAvgXP
    /\ error' = NoError
    /\ UNCHANGED <<text, tz, now, hasCalculator, ui>>

GetSuccessRateOverTimeData ==
    /\ op' = "getSuccessRateOverTimeData"
    /\ data' = IF hasCalculator THEN SortByTimestamp(data) ELSE data
    /\ ret' = IF hasCalculator THEN getSuccessRateOverTimeData(data') ELSE SampleSuccessRate
    /\ error' = NoError
    /\ UNCHANGED <<text, tz, now, hasCalculator, ui>>

GetDailyXPData ==
    /\ op' = "getDailyXPData"
    /\ data' = IF hasCalculator THEN SortByTimestamp(data) ELSE data
    /\ ret' = IF hasCalculator THEN getDailyXPData(data') ELSE EmptySeries
    /\ error' = NoError
    /\ UNCHANGED <<text, tz, now, hasCalculator, ui>>

GetWeeklyCumulativeXPData ==
    /\ op' = "getWeeklyCumulativeXPData"
    /\ data' = IF hasCalculator THEN SortByTimestamp(data) ELSE data
    /\ ret' = IF hasCalculator THEN getWeeklyCumulativeXPData(data') ELSE EmptySeries
    /\ error' = NoError
    /\ UNCHANGED <<text, tz, now, hasCalculator, ui>>

GetDailyActivitiesData ==
    /\ op' = "getDailyActivitiesData"
    /\ data' = IF hasCalculator THEN SortByTimestamp(data) ELSE data
    /\ ret' = IF hasCalculator THEN getDailyActivitiesData(data') ELSE EmptySeries
    /\ error' = NoError
    /\ UNCHANGED <<text, tz, now, hasCalculator, ui>>

GetWeeklyCumulativeActivitiesData ==
    /\ op' = "getWeeklyCumulativeActivitiesData"
    /\ data' = IF hasCalculator THEN SortByTimestamp(data) ELSE data
    /\ ret' = IF hasCalculator THEN getWeeklyCumulativeActivitiesData(data') ELSE EmptySeries
    /\ error' = NoError
    /\ UNCHANGED <<text, tz, now, hasCalculator, ui>>

GetDailyAttainmentData ==
    /\ op' = "getDailyAttainmentData"
    /\ data' = IF hasCalculator THEN SortByTimestamp(data) ELSE data
    /\ ret' = IF hasCalculator THEN getDailyAttainmentData(data') ELSE EmptySeries
    /\ error' = NoError
    /\ UNCHANGED <<text, tz, now, hasCalculator, ui>>

\* groupActivitiesByDay of src/js/chart-helpers.js
GroupActivitiesByDayISO ==
    /\ op' = "groupActivitiesByDay (src/js/chart-helpers.js)"
    /\ ret' = groupActivitiesByDayISO(data)
    /\ error' = NoError
    /\ UNCHANGED <<text, data, tz, now, hasCalculator, ui>>

\* new StatisticsCalculator(activities) over what the parser returned
NewStatisticsCalculator ==
    /\ op \in {"parseActivities", "loadFromFile"}
    /\ op' = "new"
    /\ data' = ret
    /\ hasCalculator' = TRUE
    /\ ret' = <<>>
    /\ error' = NoError
    /\ UNCHANGED <<text, tz, now, ui>>

\* a day passes
Tick ==
    /\ now < (MaxDay + 1 + MaxTicks) * HoursPerDay
    /\ now' = now + HoursPerDay
    /\ UNCHANGED <<text, data, tz, op, ret, error, hasCalculator, ui>>

ParseActivities ==
    /\ op' = "parseActivities"
    /\ ret' = parseActivities(text)
    /\ error' = NoError
    /\ UNCHANGED <<text, data, tz, now, hasCalculator, ui>>

\* loadFromFile(filename): the file is fetched and read, or not
LoadFromFile ==
    /\ \E loaded \in BOOLEAN : ret' = loadFromFile(loaded, text)
    /\ op' = "loadFromFile"
    /\ error' = NoError    \* the failure is caught and logged
    /\ UNCHANGED <<text, data, tz, now, hasCalculator, ui>>

ParseDateTime ==
    /\ \E dateStr \in Headers, timeStr \in Times :
           ret' = parseDateTime(dateStr, timeStr)
    /\ op' = "parseDateTime"
    /\ error' = NoError
    /\ UNCHANGED <<text, data, tz, now, hasCalculator, ui>>

\* init(stats), with the stats of the calculator and the calculator attached
UIInit ==
    /\ hasCalculator /\ ~ui.initialized
    /\ LET stats == [ui EXCEPT !.initialized = TRUE,
                               !.stats = calculateStats(data),
                               !.calculator = data,
                               !.shared = TRUE,
                               !.originalStats = calculateStats(data)]
       IN  /\ ui' = renderDashboard(stats)
           /\ data' = OriginalAfterRender(stats, data)
    /\ op' = "init"
    /\ ret' = <<>>
    /\ error' = NoError
    /\ UNCHANGED <<text, tz, now, hasCalculator>>

\* switchPeriod(event) with event.target.value = period
SwitchPeriod(period) ==
    /\ ui.initialized
    /\ LET stats == FilteredStats(ui, data, period)
       IN  /\ ui' = renderDashboard(stats)
           /\ data' = OriginalAfterRender(stats, data)
    /\ op' = "switchPeriod"
    /\ ret' = <<>>
    /\ error' = NoError
    /\ UNCHANGED <<text, tz, now, hasCalculator>>

\* updateStats(newStats), newStats computed by a calculator over newData
UpdateStats(newData) ==
    /\ ui.initialized
    /\ LET stats == FilteredStats([ui EXCEPT !.originalStats = calculateStats(newData)],
                                  newData, ui.currentPeriod)
       IN  /\ ui' = renderDashboard(stats)
           /\ data' = OriginalAfterRender(stats, newData)
    /\ op' = "updateStats"
    /\ ret' = <<>>
    /\ error' = NoError
    /\ UNCHANGED <<text, tz, now, hasCalculator>>

----------------------------------------------------------------------------
(* Specifications *)

\* statistics runs: a calculator constructed over any short activity sequence
Init ==
    /\ ui = NoUI
    /\ text = <<>>
    /\ data \in SeqsUpTo(StatActivities, MaxLen)
    /\ tz = 0
    /\ now = (MaxDay + 1) * HoursPerDay
    /\ op = "new"
    /\ ret = <<>>
    /\ error = NoError
    /\ hasCalculator = TRUE

Next == CalculateStats \/ GroupActivitiesByDay

Spec == Init /\ [][Next]_vars

\* series runs: activities spread over the days SeriesDays, in any order
InitSeries ==
    /\ ui = NoUI
    /\ text = <<>>
    /\ data \in SeqsUpTo(SeriesActivities, MaxSeriesLen)
    /\ tz \in TimeZoneOffsets
    /\ now = (MaxDay + 1) * HoursPerDay
    /\ op = "new"
    /\ ret = <<>>
    /\ error = NoError
    /\ hasCalculator = TRUE

NextSeries ==
    \/ GroupActivitiesByDay
    \/ GetCumulativeXPData
    \/ GetCumulativeActivitiesData
    \/ GetWeeklyCumulativeXPData
    \/ GetWeeklyCumulativeActivitiesData

SpecSeries == InitSeries /\ [][NextSeries]_vars

\* parser runs: any short page text
InitParse ==
    /\ ui = NoUI
    /\ text \in SeqsUpTo(TextItems, MaxItems)
    /\ data = <<>>
    /\ tz \in TimeZoneOffsets
    /\ now = (MaxDay + 1) * HoursPerDay
    /\ op = "new"
    /\ ret = <<>>
    /\ error = NoError
    /\ hasCalculator = TRUE

NextParse == ParseActivities

SpecParse == InitParse /\ [][NextParse]_vars

\* pipeline runs: a page text is parsed, a calculator is constructed over the
\* activities, and the statistics and chart operations are called as the days pass
InitPipeline ==
    /\ ui = NoUI
    /\ text \in SeqsUpTo(PipelineItems, MaxPipelineItems)
    /\ data = <<>>
    /\ tz \in TimeZoneOffsets
    /\ now = (MaxDay + 1) * HoursPerDay
    /\ op = "start"
    /\ ret = <<>>
    /\ error = NoError
    /\ hasCalculator = FALSE

NextPipeline ==
    \/ ParseActivities
    \/ NewStatisticsCalculator
    \/ Tick
    \/ CalculateStats
    \/ GroupActivitiesByDay
    \/ GetCumulativeXPData
    \/ GetCumulativeActivitiesData
    \/ GetAvgXPOverTimeData
    \/ GetSuccessRateOverTimeData
    \/ GetDailyXPData
    \/ GetWeeklyCumulativeXPData
    \/ GetDailyActivitiesData
    \/ GetWeeklyCumulativeActivitiesData
    \/ GetDailyAttainmentData

SpecPipeline == InitPipeline /\ [][NextPipeline]_vars

\* chart runs: every series operation, over a stats object without a
\* calculator or with a calculator over any short activity sequence
InitCharts ==
    /\ ui = NoUI
    /\ text = <<>>
    /\ hasCalculator \in BOOLEAN
    /\ data \in (IF hasCalculator THEN SeqsUpTo(ChartActivities, MaxChartLen) ELSE {<<>>})
    /\ tz \in TimeZoneOffsets
    /\ now = (MaxDay + 1) * HoursPerDay
    /\ op = "new"
    /\ ret = <<>>
    /\ error = NoError

NextCharts ==
    \/ GetCumulativeXPData
    \/ GetCumulativeActivitiesData
    \/ GetAvgXPOverTimeData
    \/ GetSuccessRateOverTimeData
    \/ GetDailyXPData
    \/ GetWeeklyCumulativeXPData
    \/ GetDailyActivitiesData
    \/ GetWeeklyCumulativeActivitiesData
    \/ GetDailyAttainmentData

SpecCharts == InitCharts /\ [][NextCharts]_vars

\* rolling runs: up to MaxActiveDays active days, enough to fill a window
InitRolling ==
    /\ ui = NoUI
    /\ text = <<>>
    /\ hasCalculator = TRUE
    /\ \E loads \in SeqsUpTo(RollingLoads, MaxActiveDays) :
           data = RollingActivities(loads)
    /\ tz = 0
    /\ now = (MaxDay + 1) * HoursPerDay
    /\ op = "new"
    /\ ret = <<>>
    /\ error = NoError

NextRolling == GetAvgXPOverTimeData \/ GetSuccessRateOverTimeData

SpecRolling == InitRolling /\ [][NextRolling]_vars

\* load runs: a file is loaded or the sample data stands in for it, a calculator
\* is constructed over the result, and the statistics are computed
InitLoad ==
    /\ ui = NoUI
    /\ text \in SeqsUpTo(PipelineItems, MaxPipelineItems)
    /\ data = <<>>
    /\ tz \in TimeZoneOffsets
    /\ now = (MaxDay + 1) * HoursPerDay
    /\ op = "start"
    /\ ret = <<>>
    /\ error = NoError
    /\ hasCalculator = FALSE

NextLoad ==
    \/ LoadFromFile
    \/ ParseDateTime
    \/ NewStatisticsCalculator
    \/ CalculateStats

SpecLoad == InitLoad /\ [][NextLoad]_vars

\* bucket runs: the activities are grouped by day by either build of
\* ChartHelpers and by the statistics engine
InitBuckets ==
    /\ ui = NoUI
    /\ text = <<>>
    /\ data \in SeqsUpTo(SeriesActivities, MaxChartLen)
    /\ tz \in TimeZoneOffsets
    /\ now = (MaxDay + 1) * HoursPerDay
    /\ op = "new"
    /\ ret = <<>>
    /\ error = NoError
    /\ hasCalculator = TRUE

NextBuckets == GroupActivitiesByDay \/ GroupActivitiesByDayISO \/ CalculateStats

SpecBuckets == InitBuckets /\ [][NextBuckets]_vars

\* controller runs: the dashboard is initialised, periods are selected and new
\* statistics arrive
InitUI ==
    /\ ui = NoUI
    /\ text = <<>>
    /\ data \in SeqsUpTo(UIActivities, MaxUILen)
    /\ tz \in TimeZoneOffsets
    /\ now \in UINows
    /\ op = "new"
    /\ ret = <<>>
    /\ error = NoError
    /\ hasCalculator = TRUE

NextUI ==
    \/ UIInit
    \/ \E period \in Periods : SwitchPeriod(period)
    \/ \E newData \in SeqsUpTo(UIActivities, MaxUILen) : UpdateStats(newData)

SpecUI == InitUI /\ [][NextUI]_vars

----------------------------------------------------------------------------
(* Properties *)

RECURSIVE EarnedFrom(_, _)
EarnedFrom(d, i) == IF i > Len(d) THEN 0 ELSE d[i].earned + EarnedFrom(d, i + 1)

Front(d) == SubSeq(d, 1, Len(d) - 1)

Last(d) == d[Len(d)]

\* C1: calculateStats returns totalActivities = the number of activities and
\* totalXP = the sum of their earned values, for the empty sequence too.
C1_Totals ==
    op = "calculateStats" =>
        /\ ret.totalActivities = Len(data)
        /\ ret.totalXP = EarnedFrom(data, 1)

C1_Witness ==
    /\ op = "calculateStats"
    /\ Len(data) = 2
    /\ data[1].earned = 1
    /\ data[2].earned = 2
    /\ ret.totalXP = 3

\* C2: perfectCount + passCount + failCount = totalActivities; an activity
\* alone in the sequence raises exactly one of the three counters.
C2_Partition ==
    op = "calculateStats" =>
        LET m == ret.successMetrics
        IN  /\ m.perfectCount + m.passCount + m.failCount = ret.totalActivities
            /\ m.perfectCount >= 0 /\ m.passCount >= 0 /\ m.failCount >= 0
            /\ Len(data) = 1 =>
                   Cardinality({c \in {"perfectCount", "passCount", "failCount"} :
                                    m[c] = 1}) = 1

C2_Witness ==
    /\ op = "calculateStats"
    /\ Len(data) = 2
    /\ data[1].earned = data[1].base /\ data[1].earned > 0
    /\ ret.successMetrics.passCount = 1
    /\ ret.successMetrics.perfectCount = 1

\* the local calendar days on which the sequence has an activity
ActiveDays(d) == {LocalDay(d[i].timestamp) : i \in 1..Len(d)}

Min(S) == CHOOSE x \in S : \A y \in S : x <= y

Max(S) == CHOOSE x \in S : \A y \in S : x >= y

C4_RangeEnds ==
    (op \in {"getCumulativeXPData", "getCumulativeActivitiesData"} /\ Len(data) > 0) =>
        LET dailyData == groupActivitiesByDay(data)
        IN  /\ Len(ret.labels) > 0
            /\ ret.labels[1] = dailyData[1].date
            /\ ret.labels[Len(ret.labels)] = dailyData[Len(dailyData)].date

CumulativeOps ==
    {"getCumulativeXPData", "getCumulativeActivitiesData",
     "getWeeklyCumulativeXPData", "getWeeklyCumulativeActivitiesData"}

\* C5: with no negative earned value, the values of each of the four
\* cumulative series never decrease from one position to the next.
C5_Monotone ==
    op \in CumulativeOps =>
        \A i \in 1..(Len(ret.values) - 1) : ret.values[i] <= ret.values[i + 1]

C5_Witness ==
    /\ op = "getWeeklyCumulativeXPData"
    /\ Len(ret.values) = 7
    /\ \E i \in 1..6 : ret.values[i] < ret.values[i + 1]
    /\ \E i \in 1..6 : ret.values[i] = ret.values[i + 1] /\ ret.values[i] > 0

\* C6: an activity for which the diagnostic predicate holds adds exactly its
\* earned value to the earned total and to the possible total, of its day's
\* bucket and of the snapshot, whatever its base.
C6_DiagnosticAttainment ==
    (Len(data) > 0 /\ isDiagnostic(Last(data))) =>
        LET a == Last(data)
            dateKey == LocalDay(a.timestamp)
            before == groupActivitiesByDay(Front(data))
            snapBefore == calculateSuccessMetrics(Front(data))
        IN  /\ op = "groupActivitiesByDay" =>
                /\ LookupOrZero(ret, "totalEarned", dateKey)
                       = LookupOrZero(before, "totalEarned", dateKey) + a.earned
                /\ LookupOrZero(ret, "totalPossible", dateKey)
                       = LookupOrZero(before, "totalPossible", dateKey) + a.earned
            /\ op = "calculateStats" =>
                /\ ret.successMetrics.totalEarned = snapBefore.totalEarned + a.earned
                /\ ret.successMetrics.totalPossible = snapBefore.totalPossible + a.earned

C6_Witness ==
    /\ op = "groupActivitiesByDay"
    /\ Len(data) = 2
    /\ isDiagnostic(data[2])
    /\ data[2].earned = 2 /\ data[2].base = 0
    /\ Len(ret) = 1
    /\ ret[1].totalPossible > ret[1].totalEarned

\* C7: an activity whose title contains "quiz" is a quiz whatever its raw
\* type: it is counted under quizzes, not under diagnostics, and its possible
\* XP is its base.
C7_TitleQuiz ==
    (op = "calculateStats" /\ Len(data) = 1
        /\ IncludesQuiz(ToLowerCase(data[1].title))) =>
        /\ ret.activityCounts.quizzes = 1
        /\ ret.activityCounts.diagnostics = 0
        /\ ret.successMetrics.totalPossible = data[1].base

\* the category a graded-pass token stands for
ClassOfToken(token) ==
    CASE token = "Lesson" -> "lesson"
      [] token = "Review" -> "review"
      [] token = "Quiz" -> "quiz"
      [] token = "Diagnostic" -> "diagnostic"
      [] token = "Multistep" -> "multistep"

\* a text of one date header followed by matches of one pass only
OneSection(t, kind) ==
    /\ Len(t) >= 2
    /\ IsHeader(t[1])
    /\ \A i \in 2..Len(t) : t[i].kind = kind

\* C8: a graded-pass match with captures T, E, P yields one activity with the
\* class of T, earned = E, base = P, percentage = round(E / P * 100) if P > 0
\* and 100 otherwise, isSuccess = (percentage >= 70).
C8_GradedMatch ==
    (op = "parseActivities" /\ OneSection(text, "graded")) =>
        /\ Len(ret) = Len(text) - 1
        /\ \A i \in 1..Len(ret) :
               LET m == text[i + 1]
                   pct == IF m.possible > 0 THEN MathRound(m.earned * 100, m.possible)
                          ELSE 100
               IN  /\ ret[i].type = ClassOfToken(m.token)
                   /\ ret[i].earned = m.earned
                   /\ ret[i].base = m.possible
                   /\ ret[i].percentage = pct
                   /\ ret[i].isSuccess = (pct >= 70)

\* C9: a diagnostic-pass match with captured N yields one activity of type
\* diagnostic with earned = base = N, percentage 100, isSuccess true.
C9_DiagnosticMatch ==
    (op = "parseActivities" /\ OneSection(text, "diagnostic")) =>
        /\ Len(ret) = Len(text) - 1
        /\ \A i \in 1..Len(ret) :
               /\ ret[i].type = "diagnostic"
               /\ ret[i].earned = text[i + 1].xp
               /\ ret[i].base = text[i + 1].xp
               /\ ret[i].percentage = 100
               /\ ret[i].isSuccess

\* the course of the first activity of the sequence that falls on the day and
\* names a course
HasCourse(d, day) ==
    \E i \in 1..Len(d) : LocalDay(d[i].timestamp) = day /\ d[i].course # ""

FirstCourse(d, day) ==
    LET i == Min({j \in 1..Len(d) : LocalDay(d[j].timestamp) = day /\ d[j].course # ""})
    IN  d[i].course

\* C10: a bucket is flagged exactly when it has a course and its first-inserted
\* course differs from that of the nearest preceding bucket that has one;
\* transitionFrom / transitionTo are then those two courses.
C10_CourseTransition ==
    op = "groupActivitiesByDay" =>
        \A i \in 1..Len(ret) :
            LET earlier == {j \in 1..(i - 1) : HasCourse(data, ret[j].date)}
                expected == /\ HasCourse(data, ret[i].date)
                            /\ earlier # {}
                            /\ FirstCourse(data, ret[Max(earlier)].date)
                                   # FirstCourse(data, ret[i].date)
            IN  /\ ret[i].courseTransition = expected
                /\ expected =>
                       /\ ret[i].transitionFrom = FirstCourse(data, ret[Max(earlier)].date)
                       /\ ret[i].transitionTo = FirstCourse(data, ret[i].date)

C10_Witness ==
    /\ op = "groupActivitiesByDay"
    /\ Len(ret) = 3
    /\ ret[2].courses = <<>>
    /\ ret[3].courseTransition
    /\ ~ret[2].courseTransition

\* C11: parseActivities returns the empty sequence for a text without a date
\* header (the empty text included), and calculateStats on an empty activity
\* sequence returns the zero-valued snapshot: every counter 0, successRate 0,
\* an empty dailyStats and an empty last14Days.
NoHeader(t) == \A i \in 1..Len(t) : ~IsHeader(t[i])

C11_EmptyInput ==
    /\ (op = "parseActivities" /\ NoHeader(text)) => ret = <<>>
    /\ (op = "calculateStats" /\ Len(data) = 0) =>
           /\ error = NoError
           /\ ret.totalXP = 0
           /\ ret.totalActivities = 0
           /\ \A c \in DOMAIN ret.activityCounts : ret.activityCounts[c] = 0
           /\ ret.successMetrics.perfectCount = 0
           /\ ret.successMetrics.passCount = 0
           /\ ret.successMetrics.failCount = 0
           /\ ret.successMetrics.successRateTenths = 0
           /\ ret.avgXPPerDay = 0
           /\ DOMAIN ret.dailyStats = {}
           /\ Len(ret.last14Days) = 0

\* a text of matches without a header was parsed and given to the calculator,
\* whose snapshot was then taken
C11_Witness ==
    /\ hasCalculator
    /\ op = "calculateStats"
    /\ Len(data) = 0
    /\ NoHeader(text)
    /\ \E i \in 1..Len(text) : text[i].kind = "graded"
    /\ ret.totalActivities = 0

\* C12: calculateStats is a function of the activity sequence alone: a second
\* call over the same sequence returns a snapshot equal to the first in every
\* field, whenever it is made.
C12_PureSnapshot ==
    [][(/\ op = "calculateStats" /\ error = NoError
        /\ op' = "calculateStats" /\ error' = NoError
        /\ data' = data)
       => ret' = ret]_vars

\* C13: whatever the page text, parseActivities, calculateStats and every
\* chart-series operation over the parsed activities return a result and raise
\* no exception; the activities of a header whose date text cannot be read carry
\* a valid date.
C13_NoException ==
    /\ error = NoError
    /\ op = "parseActivities" =>
           \A i \in 1..Len(ret) : ret[i].timestamp # InvalidDate
    /\ \A i \in 1..Len(data) : data[i].timestamp # InvalidDate

\* the snapshot of activities that were all parsed under unreadable date headers
C13_Witness ==
    /\ op = "calculateStats"
    /\ error = NoError
    /\ Len(data) > 0
    /\ ret.totalActivities = Len(data)
    /\ \A i \in 1..Len(text) : IsHeader(text[i]) => ~text[i].valid

SeriesOps ==
    {"getCumulativeXPData", "getCumulativeActivitiesData", "getAvgXPOverTimeData",
     "getSuccessRateOverTimeData", "getDailyXPData", "getWeeklyCumulativeXPData",
     "getDailyActivitiesData", "getWeeklyCumulativeActivitiesData",
     "getDailyAttainmentData"}

\* earned XP, possible XP or number of the activities of d that fall on one of days
RECURSIVE DaysTotal(_, _, _)
DaysTotal(d, days, what) ==
    IF Len(d) = 0 THEN 0
    ELSE (IF LocalDay(Head(d).timestamp) \notin days THEN 0
          ELSE CASE what = "earned" -> Head(d).earned
                 [] what = "possible" -> DayPossible(Head(d))
                 [] what = "count" -> 1)
         + DaysTotal(Tail(d), days, what)

\* the active days a rolling point at `day` covers: that day and the six
\* active days before it
WindowDays(d, day) ==
    {k \in ActiveDays(d) :
        /\ k <= day
        /\ Cardinality({e \in ActiveDays(d) : k < e /\ e <= day}) <= WindowReach}

\* the statistic the series of operation `name` shows for calendar day `day`
DayStatistic(name, d, day, firstDay) ==
    LET upTo == {k \in ActiveDays(d) : k <= day}
        window == WindowDays(d, day)
    IN  CASE name = "getCumulativeXPData" -> DaysTotal(d, upTo, "earned")
          [] name = "getCumulativeActivitiesData" -> DaysTotal(d, upTo, "count")
          [] name = "getAvgXPOverTimeData" ->
                 MathRound(DaysTotal(d, window, "earned"), Cardinality(window))
          [] name = "getSuccessRateOverTimeData" ->
                 IF DaysTotal(d, window, "possible") > 0
                 THEN MathRound(DaysTotal(d, window, "earned") * 100,
                                DaysTotal(d, window, "possible"))
                 ELSE 0
          [] name = "getDailyXPData" -> DaysTotal(d, {day}, "earned")
          [] name = "getDailyActivitiesData" -> DaysTotal(d, {day}, "count")
          [] name = "getWeeklyCumulativeXPData" -> DaysTotal(d, firstDay..day, "earned")
          [] name = "getWeeklyCumulativeActivitiesData" ->
                 DaysTotal(d, firstDay..day, "count")
          [] name = "getDailyAttainmentData" ->
                 IF DaysTotal(d, {day}, "possible") > 0
                 THEN MathRound(DaysTotal(d, {day}, "earned") * 100,
                                DaysTotal(d, {day}, "possible"))
                 ELSE 100

\* C14: every series a ChartHelpers series operation returns has as many
\* values as labels, without a calculator and for an empty activity sequence
\* too, and for a non-empty sequence values[i] is the operation's statistic of
\* the day labels[i] names.
C14_Aligned ==
    op \in SeriesOps =>
        /\ Len(ret.labels) = Len(ret.values)
        /\ (hasCalculator /\ Len(data) > 0) =>
               \A i \in 1..Len(ret.labels) :
                   ret.values[i] = DayStatistic(op, data, ret.labels[i], ret.labels[1])

\* a week of daily XP with two active days of different XP
C14_Witness ==
    /\ op = "getDailyXPData"
    /\ hasCalculator
    /\ Len(ret.labels) = 7
    /\ \E i, j \in 1..7 :
           /\ i < j
           /\ ret.values[i] = 2
           /\ ret.values[j] = 1
           /\ \E k \in 1..7 : i < k /\ k < j /\ ret.values[k] = 0

\* C15: over an empty activity sequence every series operation returns an
\* empty series: no labels and no values.
C15_EmptySeries ==
    (op \in SeriesOps /\ hasCalculator /\ Len(data) = 0) =>
        /\ Len(ret.labels) = 0
        /\ Len(ret.values) = 0

\* C16: calculateStats and the chart-series operations leave the calculator's
\* activity sequence as it was: the same elements in the same order.
C16_InputUnchanged ==
    [][op' \in SeriesOps \cup {"calculateStats", "groupActivitiesByDay"}
           => data' = data]_vars

\* C17: the totalEarned and the totalPossible of the buckets of
\* groupActivitiesByDay add up to the totalEarned and totalPossible of the
\* success metrics of calculateStats over the same activities, also when a
\* non-diagnostic activity has base 0.
C17_BucketTotals ==
    op = "groupActivitiesByDay" =>
        LET successMetrics == calculateSuccessMetrics(data)
        IN  /\ SumField(ret, "totalEarned") = successMetrics.totalEarned
            /\ SumField(ret, "totalPossible") = successMetrics.totalPossible

\* possible XP of the activities i.. of d: earned for a diagnostic, base otherwise
RECURSIVE PossibleFrom(_, _)
PossibleFrom(d, i) ==
    IF i > Len(d) THEN 0
    ELSE (IF isDiagnostic(d[i]) THEN d[i].earned ELSE d[i].base) + PossibleFrom(d, i + 1)

\* r is x / y * 1000 rounded to the nearest whole number, halves up
IsRoundedTenths(r, x, y) == 2 * y * r <= 2000 * x + y /\ 2000 * x + y < 2 * y * (r + 1)

\* C18 as stated: successRate is totalEarned / totalPossible * 100 rounded to one
\* decimal, 0 when totalPossible is 0, and above 100 whenever totalEarned
\* exceeds totalPossible.
C18_SuccessRate ==
    op = "calculateStats" =>
        LET totalEarned == EarnedFrom(data, 1)
            totalPossible == PossibleFrom(data, 1)
            rate == ret.successMetrics.successRateTenths
        IN  /\ totalPossible > 0 => IsRoundedTenths(rate, totalEarned, totalPossible)
            /\ totalPossible = 0 => rate = 0
            /\ totalEarned > totalPossible => rate > 1000

\* C18 (amended): successRate is totalEarned / totalPossible * 100 rounded to one
\* decimal and 0 when totalPossible is 0, even if XP was earned; it is not
\* clamped: with totalEarned > totalPossible > 0 it is at least 100, and above
\* 100 once the excess reaches 0.05 % of totalPossible.
C18_SuccessRateAmended ==
    op = "calculateStats" =>
        LET totalEarned == EarnedFrom(data, 1)
            totalPossible == PossibleFrom(data, 1)
            rate == ret.successMetrics.successRateTenths
        IN  /\ totalPossible > 0 => IsRoundedTenths(rate, totalEarned, totalPossible)
            /\ totalPossible = 0 => rate = 0
            /\ (totalEarned > totalPossible /\ totalPossible > 0) => rate >= 1000
            /\ (totalPossible > 0 /\ 2000 * totalEarned >= 2001 * totalPossible)
                   => rate > 1000

\* three XP earned against two possible: 150 %
C18_Witness ==
    /\ op = "calculateStats"
    /\ Len(data) > 0
    /\ ret.successMetrics.totalEarned = 3
    /\ ret.successMetrics.totalPossible = 2
    /\ ret.successMetrics.successRateTenths = 1500

Categories == {"diagnostics", "lessons", "reviews", "multisteps", "quizzes"}

\* the sum of the five category counters
RECURSIVE CategorySum(_, _)
CategorySum(counts, cats) ==
    IF cats = {} THEN 0
    ELSE LET c == CHOOSE x \in cats : TRUE
         IN  counts[c] + CategorySum(counts, cats \ {c})

\* an activity no category takes: not a quiz by task name, and a type outside
\* the names the counters know
Unclassified(activity) ==
    /\ ~IncludesQuiz(ToLowerCase(activity.taskName))
    /\ ToLowerCase(activity.type) \notin
           {"diagnostic", "assessment", "supplemental diagnostic", "lesson", "review",
            "multistep", "quiz"}

\* C19: each activity raises at most one category counter, an unclassified one
\* raises none but is counted in totalActivities and totalXP; the five counters
\* add up to totalActivities minus the number of unclassified activities.
C19_CategoryCounts ==
    op = "calculateStats" =>
        LET unclassified == Cardinality({i \in 1..Len(data) : Unclassified(data[i])})
            counts == ret.activityCounts
        IN  /\ DOMAIN counts = Categories
            /\ \A c \in Categories : counts[c] >= 0
            /\ CategorySum(counts, Categories) = ret.totalActivities - unclassified
            /\ ret.totalActivities = Len(data)
            /\ ret.totalXP = EarnedFrom(data, 1)
            /\ Len(data) > 0 =>
                   LET before == calculateActivityCounts(Front(data))
                       raised == {c \in Categories : counts[c] # before[c]}
                   IN  /\ Cardinality(raised) <= 1
                       /\ \A c \in raised : counts[c] = before[c] + 1
                       /\ Unclassified(Last(data)) => raised = {}

\* a lesson and an activity of the unknown type "lessons" that earned 2 XP
C19_Witness ==
    /\ op = "calculateStats"
    /\ Len(data) = 2
    /\ data[1].type = "lesson"
    /\ Unclassified(data[2]) /\ data[2].earned = 2
    /\ ret.activityCounts.lessons = 1
    /\ CategorySum(ret.activityCounts, Categories) = 1
    /\ ret.totalActivities = 2
    /\ ret.totalXP >= 2

\* r is x / y rounded to the nearest whole number, halves up
IsRounded(r, x, y) == 2 * y * r <= 2 * x + y /\ 2 * x + y < 2 * y * (r + 1)

\* C20: a rolling series has one point per active day, in ascending date
\* order; point i covers that day and the active days before it, at most six of
\* them, and is never padded: the rolling XP is the sum of the covered days' XP
\* over their number, rounded, and the rolling attainment is the covered earned
\* XP over the covered possible XP times 100, rounded, or 0 without possible XP.
C20_RollingWindow ==
    (op \in {"getAvgXPOverTimeData", "getSuccessRateOverTimeData"} /\ Len(data) > 0) =>
        /\ Len(ret.labels) = Cardinality(ActiveDays(data))
        /\ Len(ret.values) = Len(ret.labels)
        /\ {ret.labels[i] : i \in 1..Len(ret.labels)} = ActiveDays(data)
        /\ \A i \in 1..(Len(ret.labels) - 1) : ret.labels[i] < ret.labels[i + 1]
        /\ \A i \in 1..Len(ret.labels) :
               LET size == IF i < 7 THEN i ELSE 7
                   covered == {ret.labels[j] : j \in (i - size + 1)..i}
                   xp == DaysTotal(data, covered, "earned")
                   possible == DaysTotal(data, covered, "possible")
               IN  IF op = "getAvgXPOverTimeData"
                   THEN IsRounded(ret.values[i], xp, size)
                   ELSE IF possible > 0
                        THEN IsRounded(ret.values[i], 100 * xp, possible)
                        ELSE ret.values[i] = 0

\* eight active days: the XP of the first is in the seventh point's window
\* and has left the eighth's
C20_Witness ==
    /\ op = "getAvgXPOverTimeData"
    /\ Len(ret.values) = 8
    /\ data[1].earned = 4
    /\ ret.values[7] = 1
    /\ ret.values[8] = 0

WeekOps ==
    {"getDailyXPData", "getWeeklyCumulativeXPData", "getDailyActivitiesData",
     "getWeeklyCumulativeActivitiesData", "getDailyAttainmentData"}

\* C21: for a non-empty activity sequence every week-view series has exactly
\* 7 labels, the local date keys of today minus 6 up to today in ascending
\* order, whichever days have activity.
C21_WeekLabels ==
    (op \in WeekOps /\ hasCalculator /\ Len(data) > 0) =>
        /\ Len(ret.labels) = 7
        /\ Len(ret.values) = 7
        /\ \A i \in 1..7 : ret.labels[i] = LocalDay(now) - 7 + i

\* west of UTC, where the local date of today is not the UTC date, over
\* activities of one day only
C21_Witness ==
    /\ op = "getDailyAttainmentData"
    /\ tz < 0
    /\ Cardinality(ActiveDays(data)) = 1
    /\ Len(ret.labels) = 7
    /\ ret.labels[7] = LocalDay(now)
    /\ LocalDay(now) # now \div HoursPerDay

\* C22: in the zero-filled and week-window series a day without activity adds
\* the additive identity: 0 in the daily XP and count series, no change in the
\* cumulative ones; the week-view attainment series shows 100 for such a day
\* and round(totalEarned / totalPossible * 100) for every day with activity.
C22_MissingDay ==
    (op \in SeriesOps /\ hasCalculator /\ Len(data) > 0) =>
        \A i \in 1..Len(ret.labels) :
            LET day == ret.labels[i]
                idle == day \notin ActiveDays(data)
                before == IF i = 1 THEN 0 ELSE ret.values[i - 1]
            IN  CASE op \in {"getDailyXPData", "getDailyActivitiesData"} ->
                         idle => ret.values[i] = 0
                  [] op \in CumulativeOps -> idle => ret.values[i] = before
                  [] op = "getDailyAttainmentData" ->
                         IF idle THEN ret.values[i] = 100
                         ELSE IsRounded(ret.values[i],
                                        100 * DaysTotal(data, {day}, "earned"),
                                        DaysTotal(data, {day}, "possible"))
                  [] OTHER -> TRUE

\* C22, amended: as above, and the week-view attainment series shows 100 also
\* for a day with activity whose possible XP add up to 0 (diagnostics that
\* earned nothing), where the quotient is not defined.
C22_MissingDayAmended ==
    (op \in SeriesOps /\ hasCalculator /\ Len(data) > 0) =>
        \A i \in 1..Len(ret.labels) :
            LET day == ret.labels[i]
                idle == day \notin ActiveDays(data)
                before == IF i = 1 THEN 0 ELSE ret.values[i - 1]
            IN  CASE op \in {"getDailyXPData", "getDailyActivitiesData"} ->
                         idle => ret.values[i] = 0
                  [] op \in CumulativeOps -> idle => ret.values[i] = before
                  [] op = "getDailyAttainmentData" ->
                         IF idle \/ DaysTotal(data, {day}, "possible") = 0
                         THEN ret.values[i] = 100
                         ELSE IsRounded(ret.values[i],
                                        100 * DaysTotal(data, {day}, "earned"),
                                        DaysTotal(data, {day}, "possible"))
                  [] OTHER -> TRUE

\* a week with a day without activity, a day with a diagnostic that earned
\* nothing and a day with a lesson at 50 %
C22_Witness ==
    /\ op = "getDailyAttainmentData" /\ hasCalculator /\ Len(data) = 2
    /\ \E i, j, k \in 1..Len(ret.labels) :
           /\ ret.labels[i] \notin ActiveDays(data) /\ ret.values[i] = 100
           /\ ret.labels[j] \in ActiveDays(data)
           /\ DaysTotal(data, {ret.labels[j]}, "possible") = 0
           /\ ret.values[j] = 100
           /\ ret.labels[k] \in ActiveDays(data) /\ ret.values[k] = 50

\* C23: every series operation, the week-view ones included, returns a
\* transitions map that has an entry {from, to} for a date exactly when
\* groupActivitiesByDay flagged a course transition on that date and the date
\* is one of the returned labels.
C23_Transitions ==
    (op \in SeriesOps /\ hasCalculator /\ Len(data) > 0) =>
        /\ "transitions" \in DOMAIN ret
        /\ LET dailyData == groupActivitiesByDay(data)
               labels == {ret.labels[i] : i \in 1..Len(ret.labels)}
               flagged == {i \in 1..Len(dailyData) :
                              dailyData[i].courseTransition /\ dailyData[i].date \in labels}
           IN  ret.transitions = {[date |-> dailyData[i].date,
                                   from |-> dailyData[i].transitionFrom,
                                   to |-> dailyData[i].transitionTo] : i \in flagged}

\* C24: parseDateTime returns a valid date whatever the texts are: where the
\* date and time text does not parse, the result is the fallback of parseDate
\* (the current date at worst), never an Invalid Date.
C24_DateTimeFallback ==
    op = "parseDateTime" =>
        /\ ret # InvalidDate
        /\ \/ \E dateStr \in Headers, timeStr \in Times :
                   dateStr.valid /\ timeStr.valid /\ ret = parseDateTime(dateStr, timeStr)
           \/ \E dateStr \in Headers : ret = parseDate(dateStr)

\* the five type names of the taxonomy
Taxonomy == {"diagnostic", "lesson", "review", "multistep", "quiz"}

\* C26: every activity loadFromFile returns, parsed or sample, has a type of
\* the taxonomy and is counted in exactly one category counter.
C26_Taxonomy ==
    op = "loadFromFile" =>
        /\ \A i \in 1..Len(ret) : ret[i].type \in Taxonomy
        /\ CategorySum(calculateActivityCounts(ret), Categories) = Len(ret)

\* C25: every activity of type diagnostic the parser emits has base equal to
\* earned, whether the diagnostic pass or the graded pass extracted it.
C25_DiagnosticBase ==
    op = "parseActivities" =>
        \A i \in 1..Len(ret) :
            ret[i].type = "diagnostic" => ret[i].base = ret[i].earned

\* C28: for a non-empty activity sequence in any time zone the last value of
\* the cumulative XP series is the snapshot's totalXP and the last value of the
\* cumulative activity-count series is totalActivities.
C28_CumulativeTotals ==
    (hasCalculator /\ Len(data) > 0) =>
        /\ op = "getCumulativeXPData" =>
               /\ Len(ret.values) > 0
               /\ Last(ret.values) = calculateStats(data).totalXP
        /\ op = "getCumulativeActivitiesData" =>
               /\ Len(ret.values) > 0
               /\ Last(ret.values) = calculateStats(data).totalActivities

GroupingOps ==
    {"groupActivitiesByDay", "groupActivitiesByDay (src/js/chart-helpers.js)"}

\* C27: groupActivitiesByDay returns one bucket per distinct local calendar
\* date of the activities, in strictly ascending order of the date key, so the
\* number of buckets is the number of days calculateDailyStats and avgXPPerDay
\* count, in every time zone.
C27_LocalBuckets ==
    op \in GroupingOps =>
        /\ {ret[i].date : i \in 1..Len(ret)} = ActiveDays(data)
        /\ \A i \in 1..Len(ret) - 1 : ret[i].date < ret[i + 1].date
        /\ Len(ret) = Cardinality(ActiveDays(data))
        /\ Len(ret) = Cardinality(DOMAIN calculateDailyStats(data))
        /\ Len(ret) = Cardinality(DailyStatsKeys(data))

\* the cards show the statistics of the original activities filtered by the
\* current period
ShowsFiltered ==
    /\ ui.stats = calculateStats(filterByPeriod(data, ui.currentPeriod))
    /\ ui.originalStats = calculateStats(data)

\* C29: after init and any switchPeriod and updateStats events the displayed
\* stats are those of the most recently supplied original activities filtered
\* by currentPeriod, currentPeriod is the period selected last, and switchPeriod
\* leaves originalStats, its activities included, as it was; selecting 'all'
\* shows the statistics of the full original activity set again.
C29_PeriodSwitching ==
    [][/\ ShowsFiltered'
       /\ \A period \in Periods :
              SwitchPeriod(period) =>
                  /\ ui'.currentPeriod = period
                  /\ ui'.originalStats = ui.originalStats
                  /\ data' = data
                  /\ period = "all" => ui'.stats = ui.originalStats
       /\ op' = "updateStats" => ui'.currentPeriod = ui.currentPeriod]_vars

\* C30: in the 'week' period every activity the filter kept falls on one of
\* the 7 dates of the week charts, so the last value of the weekly cumulative
\* XP chart is totalXP of the displayed stats and the last value of the weekly
\* cumulative activities chart is their totalActivities.
C30_WeekAgreement ==
    (ui.initialized /\ ui.currentPeriod = "week" /\ Len(ui.calculator) > 0) =>
        /\ \A i \in 1..Len(ui.calculator) :
               \E j \in 1..Len(ui.xpChart.labels) :
                   ui.xpChart.labels[j] = LocalDay(ui.calculator[i].timestamp)
        /\ Last(ui.xpChart.values) = ui.stats.totalXP
        /\ Last(ui.activitiesChart.values) = ui.stats.totalActivities

====
